---- MODULE Spec2Model ----
(***************************************************************************)
(* Circuit breaker of bnm3k/kit (package circuitbreaker).                  *)
(*                                                                         *)
(* The CircuitBreaker struct is the record cb.  Every exported operation   *)
(* takes cb.mutex first.  The critical sections of beforeRequest and       *)
(* afterRequest are modelled in three steps each (the lazy evaluation by   *)
(* currentState, the check, the mutation with the deferred Unlock), so     *)
(* that mutual exclusion is a property of the mutex and not of the         *)
(* granularity of the model.  The guarded operation req() runs between the *)
(* two critical sections, outside the mutex.  Time is an integer clock;    *)
(* the zero time.Time is ZeroTime.  ret is the value the step just taken   *)
(* returned to its caller.  The onStateChange field of cb is the callback  *)
(* together with what it has been called with.                             *)
(*                                                                         *)
(* Spec is a breaker called through Do; SpecTwoStep is the breaker behind  *)
(* a TwoStepCircuitBreaker, called through Allow and done; SpecObserver is *)
(* a breaker built with an OnStateChange; SpecClassifier is the breaker of *)
(* TestCustomIsSuccessful; SpecMisuse has callers that call done twice.    *)
(***************************************************************************)
EXTENDS Integers, FiniteSets, Sequences, TLC

(* ---- bounds of the model ---- *)
NumCallers == 2
MaxTime == 7
MaxCurrRequests == 7
CustomMaxRequests == 2
CustomInterval == 2
CustomTimeout == 2

(* ---- program constants ---- *)
StateClosed == 0
StateHalfOpen == 1
StateOpen == 2
DefaultMaxRequests == 1
DefaultTimeout == 60
DefaultTripThreshold == 5
ZeroTime == 0

Callers == 1..NumCallers
Observer == NumCallers + 1
Goroutines == Callers \cup {Observer}
NoOne == -1

States == {StateClosed, StateHalfOpen, StateOpen}

ZeroCounts ==
  [CurrRequests |-> 0, TotalSuccesses |-> 0, TotalFailures |-> 0,
   ConsecutiveSuccesses |-> 0, ConsecutiveFailures |-> 0]

VARIABLES
  cb,        \* the CircuitBreaker struct (configuration, mutex, state, generation, counts, expiry)
  clock,     \* what time.Now() returns
  pc,        \* where each goroutine is
  token,     \* Do / Allow: the generation returned by beforeRequest
  lnow,      \* local `now` of the critical section a goroutine is in
  lstate,    \* local `state` returned by currentState
  lgen,      \* local `generation` returned by currentState
  success,   \* argument `success` of afterRequest
  result,    \* how the guarded operation ended: "nil", "fail" (an error) or "panic"
  ret        \* what the step just taken returned to its caller, if it was a return

vars == <<cb, clock, pc, token, lnow, lstate, lgen, success, result, ret>>

(* ---- Config and its defaults ---- *)

\* A callback of "nil" is the absent callback.  ShouldTrip "ratio" is the callback of
\* newCustom; IsSuccessful "always" is the one of TestCustomIsSuccessful; OnStateChange
\* "track" is the one of newCustom, which keeps the last (from, to) it was called
\* with, and "reenter" is a callback that calls a method of the breaker it is
\* registered on.
DefaultConfig ==
  [MaxRequests |-> 0, Interval |-> 0, Timeout |-> 0, ShouldTrip |-> "nil",
   OnStateChange |-> "nil", IsSuccessful |-> "nil"]

NegativeDurationConfig ==
  [MaxRequests |-> 0, Interval |-> -CustomInterval, Timeout |-> -CustomTimeout,
   ShouldTrip |-> "nil", OnStateChange |-> "nil", IsSuccessful |-> "nil"]

CustomConfig ==
  [MaxRequests |-> CustomMaxRequests, Interval |-> CustomInterval, Timeout |-> CustomTimeout,
   ShouldTrip |-> "ratio", OnStateChange |-> "nil", IsSuccessful |-> "nil"]

\* The defaults with a short Timeout and the trip predicate of newCustom: one probe.
SingleProbeConfig ==
  [MaxRequests |-> 0, Interval |-> 0, Timeout |-> CustomTimeout,
   ShouldTrip |-> "ratio", OnStateChange |-> "nil", IsSuccessful |-> "nil"]

Configs == {DefaultConfig, NegativeDurationConfig, CustomConfig, SingleProbeConfig}

\* Config{IsSuccessful: isSuccessful} of TestCustomIsSuccessful.
AllSuccessConfig == [DefaultConfig EXCEPT !.IsSuccessful = "always"]

\* newCustom(&stateChange): the custom configuration with its tracking callback.
TrackedConfig == [CustomConfig EXCEPT !.OnStateChange = "track"]

\* The custom configuration with a callback that calls back into the breaker.
ReentrantConfig == [CustomConfig EXCEPT !.OnStateChange = "reenter"]

\* setDefaults replacing only the durations that are zero.
setDefaults_ZeroOnly(cfg) ==
  [MaxRequests  |-> IF cfg.MaxRequests = 0 THEN DefaultMaxRequests ELSE cfg.MaxRequests,
   Interval     |-> IF cfg.Interval = 0 THEN 0 ELSE cfg.Interval,
   Timeout      |-> IF cfg.Timeout = 0 THEN DefaultTimeout ELSE cfg.Timeout,
   ShouldTrip   |-> IF cfg.ShouldTrip = "nil" THEN "default" ELSE cfg.ShouldTrip,
   OnStateChange |-> cfg.OnStateChange,
   IsSuccessful |-> IF cfg.IsSuccessful = "nil" THEN "default" ELSE cfg.IsSuccessful]

setDefaults(cfg) ==
  [MaxRequests  |-> IF cfg.MaxRequests = 0 THEN DefaultMaxRequests ELSE cfg.MaxRequests,
   Interval     |-> IF cfg.Interval <= 0 THEN 0 ELSE cfg.Interval,
   Timeout      |-> IF cfg.Timeout <= 0 THEN DefaultTimeout ELSE cfg.Timeout,
   ShouldTrip   |-> IF cfg.ShouldTrip = "nil" THEN "default" ELSE cfg.ShouldTrip,
   OnStateChange |-> cfg.OnStateChange,
   IsSuccessful |-> IF cfg.IsSuccessful = "nil" THEN "default" ELSE cfg.IsSuccessful]

\* The default trip predicate comparing by >= instead of >.
ShouldTrip_AtThreshold(kind, counts) ==
  IF kind = "default"
  THEN counts.ConsecutiveFailures >= DefaultTripThreshold
  ELSE counts.CurrRequests >= 3 /\ 5 * counts.TotalFailures >= 3 * counts.CurrRequests

\* The trip predicates: the default of setDefaults and the failure ratio of newCustom
\* (numReqs >= 3 && TotalFailures/numReqs >= 0.6, in integers).
ShouldTrip(kind, counts) ==
  IF kind = "default"
  THEN counts.ConsecutiveFailures > DefaultTripThreshold
  ELSE counts.CurrRequests >= 3 /\ 5 * counts.TotalFailures >= 3 * counts.CurrRequests

\* A breaker that ignores Config.IsSuccessful.
IsSuccessful_ConfigIgnored(kind, e) == e = "nil"

\* The classifier: the default of setDefaults (err == nil).
IsSuccessful(kind, e) ==
  IF kind = "default" THEN e = "nil" ELSE TRUE

(* ---- the unexported methods, as functions of the struct ---- *)

\* toNewGeneration without cb.counts.clear().
toNewGeneration_KeepsCounts(b, t) ==
  [b EXCEPT !.generation = @ + 1,
            !.expiry = IF b.state = StateClosed
                       THEN (IF b.interval = 0 THEN ZeroTime ELSE t + b.interval)
                       ELSE IF b.state = StateOpen THEN t + b.timeout
                       ELSE ZeroTime]

\* toNewGeneration giving a HalfOpen generation the expiry of an Open one.
toNewGeneration_HalfOpenExpires(b, t) ==
  [b EXCEPT !.generation = @ + 1,
            !.counts = ZeroCounts,
            !.expiry = IF b.state = StateClosed
                       THEN (IF b.interval = 0 THEN ZeroTime ELSE t + b.interval)
                       ELSE t + b.timeout]

\* toNewGeneration counting the interval of a reset from the expiry that has passed.
toNewGeneration_FromOldExpiry(b, t) ==
  [b EXCEPT !.generation = @ + 1,
            !.counts = ZeroCounts,
            !.expiry = IF b.state = StateClosed
                       THEN (IF b.interval = 0 THEN ZeroTime
                             ELSE IF b.expiry = ZeroTime THEN t + b.interval
                             ELSE b.expiry + b.interval)
                       ELSE IF b.state = StateOpen THEN t + b.timeout
                       ELSE ZeroTime]

toNewGeneration(b, t) ==
  [b EXCEPT !.generation = @ + 1,
            !.counts = ZeroCounts,
            !.expiry = IF b.state = StateClosed
                       THEN (IF b.interval = 0 THEN ZeroTime ELSE t + b.interval)
                       ELSE IF b.state = StateOpen THEN t + b.timeout
                       ELSE ZeroTime]

\* cb.onStateChange(prev, newState): the callback has been called once more, the
\* last time with (from, to).
onStateChange(callback, from, to) ==
  [callback EXCEPT !.calls = @ + 1, !.from = from, !.to = to]

\* setState calling the callback also when the state is the one the breaker is in.
setState_NotifiesNoOp(b, newState, t) ==
  LET b1 == IF b.state = newState THEN b
            ELSE toNewGeneration([b EXCEPT !.state = newState], t)
  IN IF b1.onStateChange.kind # "nil"
     THEN [b1 EXCEPT !.onStateChange = onStateChange(@, b.state, newState)]
     ELSE b1

setState(b, newState, t) ==
  IF b.state = newState
  THEN b
  ELSE LET b1 == toNewGeneration([b EXCEPT !.state = newState], t)
       IN IF b1.onStateChange.kind # "nil"
          THEN [b1 EXCEPT !.onStateChange = onStateChange(@, b.state, newState)]
          ELSE b1

\* currentState leaving Open as soon as now reaches the expiry.
currentState_HalfOpenAtExpiry(b, t) ==
  IF b.state = StateClosed
  THEN (IF b.expiry # ZeroTime /\ b.expiry < t THEN toNewGeneration(b, t) ELSE b)
  ELSE IF b.state = StateOpen
  THEN (IF b.expiry <= t THEN setState(b, StateHalfOpen, t) ELSE b)
  ELSE b

\* currentState resetting the counts as soon as now reaches the expiry.
currentState_ResetAtExpiry(b, t) ==
  IF b.state = StateClosed
  THEN (IF b.expiry # ZeroTime /\ b.expiry <= t THEN toNewGeneration(b, t) ELSE b)
  ELSE IF b.state = StateOpen
  THEN (IF b.expiry < t THEN setState(b, StateHalfOpen, t) ELSE b)
  ELSE b

\* currentState leaving Open straight for Closed when the timeout has passed.
currentState_SkipHalfOpen(b, t) ==
  IF b.state = StateClosed
  THEN (IF b.expiry # ZeroTime /\ b.expiry < t THEN toNewGeneration(b, t) ELSE b)
  ELSE IF b.state = StateOpen
  THEN (IF b.expiry < t THEN setState(b, StateClosed, t) ELSE b)
  ELSE b

\* currentState starting a new HalfOpen generation, with a fresh set of probes, when
\* all the probes of the generation have been admitted.
currentState_HalfOpenRearms(b, t) ==
  IF b.state = StateClosed
  THEN (IF b.expiry # ZeroTime /\ b.expiry < t THEN toNewGeneration(b, t) ELSE b)
  ELSE IF b.state = StateOpen
  THEN (IF b.expiry < t THEN setState(b, StateHalfOpen, t) ELSE b)
  ELSE IF b.counts.CurrRequests >= b.maxRequests
  THEN toNewGeneration(b, t)
  ELSE b

currentState(b, t) ==
  IF b.state = StateClosed
  THEN (IF b.expiry # ZeroTime /\ b.expiry < t THEN toNewGeneration(b, t) ELSE b)
  ELSE IF b.state = StateOpen
  THEN (IF b.expiry < t THEN setState(b, StateHalfOpen, t) ELSE b)
  ELSE b

New(cfg, t) ==
  LET c == setDefaults(cfg)
  IN toNewGeneration(
       [maxRequests |-> c.MaxRequests, interval |-> c.Interval, timeout |-> c.Timeout,
        shouldTrip |-> c.ShouldTrip, isSuccessful |-> c.IsSuccessful,
        onStateChange |-> [kind |-> c.OnStateChange, calls |-> 0,
                           from |-> StateClosed, to |-> StateClosed],
        mutex |-> NoOne, state |-> StateClosed, generation |-> 0,
        counts |-> ZeroCounts, expiry |-> ZeroTime], t)

\* ret of a step that returns nothing to a caller.
NoRet ==
  [op |-> "none", who |-> NoOne, err |-> "nil", state |-> StateClosed,
   counts |-> ZeroCounts, cfg |-> DefaultConfig]

\* New(cfg) has just returned the breaker, for a cfg of configs.
Start(configs) ==
  /\ clock = 1
  /\ \E cfg \in configs :
       /\ cb = New(cfg, clock)
       /\ ret = [NoRet EXCEPT !.op = "New", !.cfg = cfg]
  /\ pc = [c \in Goroutines |-> "idle"]
  /\ token = [c \in Callers |-> 0]
  /\ lnow = [c \in Callers |-> 0]
  /\ lstate = [c \in Callers |-> StateClosed]
  /\ lgen = [c \in Callers |-> 0]
  /\ success = [c \in Callers |-> FALSE]
  /\ result = [c \in Callers |-> "none"]

Init == Start(Configs)

(* ---- sync.Mutex ---- *)

\* A Lock that does not wait for the holder.
Lock_NoExclusion(b, c) == TRUE

\* A Lock that the holder of the mutex can take again.
Lock_Reentrant(b, c) == b.mutex \in {NoOne, c}

Lock(b, c) == b.mutex = NoOne

\* Where a goroutine calls a method of the breaker from: `at`, or the onStateChange
\* callback it is in.
CallSites(at) == {at, "onStateChange"}

\* The step that took cb to b called an onStateChange that calls back into the breaker.
Reenters(b) ==
  b.onStateChange.kind = "reenter" /\ b.onStateChange.calls # cb.onStateChange.calls

Locked(b, c) == [b EXCEPT !.mutex = c]

\* A deferred Unlock that does not run when the method returns: the mutex stays with
\* the caller while its guarded operation runs.
Unlock_NotOnReturn(b) == b

Unlock(b) == [b EXCEPT !.mutex = NoOne]

ClearLocals(c) ==
  /\ lnow' = [lnow EXCEPT ![c] = 0]
  /\ lstate' = [lstate EXCEPT ![c] = StateClosed]
  /\ lgen' = [lgen EXCEPT ![c] = 0]

(* ---- beforeRequest and afterRequest after their call of currentState ---- *)

\* The probe limit compared by > instead of >=.
beforeRequestError_LimitOffByOne(b, st) ==
  IF st = StateOpen
  THEN "ErrOpenState"
  ELSE IF st = StateHalfOpen /\ b.counts.CurrRequests > b.maxRequests
  THEN "ErrTooManyRequests"
  ELSE "nil"

\* beforeRequest returning each error for the other state.
beforeRequestError_ErrorsSwapped(b, st) ==
  IF st = StateOpen
  THEN "ErrTooManyRequests"
  ELSE IF st = StateHalfOpen /\ b.counts.CurrRequests >= b.maxRequests
  THEN "ErrOpenState"
  ELSE "nil"

\* beforeRequest admitting calls while Open.
beforeRequestError_OpenAdmits(b, st) ==
  IF st = StateHalfOpen /\ b.counts.CurrRequests >= b.maxRequests
  THEN "ErrTooManyRequests"
  ELSE "nil"

\* Lines 156-160: the error beforeRequest returns; st is the local state.
beforeRequestError(b, st) ==
  IF st = StateOpen
  THEN "ErrOpenState"
  ELSE IF st = StateHalfOpen /\ b.counts.CurrRequests >= b.maxRequests
  THEN "ErrTooManyRequests"
  ELSE "nil"

\* An admission that is not counted.
admit_Uncounted(b) == b

\* Line 162: cb.counts.CurrRequests++
admit(b) == [b EXCEPT !.counts.CurrRequests = @ + 1]

\* afterRequest without the comparison of the generation with the token.
stale_Never(before, gen) == FALSE

\* afterRequest also discarding a report once every admission of the generation has
\* an outcome recorded.
stale_OncePerAdmission(before, gen) ==
  \/ gen # before
  \/ cb.counts.TotalSuccesses + cb.counts.TotalFailures >= cb.counts.CurrRequests

\* Line 241: the report is for another generation than the current one.
stale(before, gen) == gen # before

\* A success that leaves the consecutive failures as they are.
onSuccess_KeepsFailures(counts) ==
  [counts EXCEPT !.TotalSuccesses = @ + 1,
                 !.ConsecutiveSuccesses = @ + 1]

\* A success that gives back the admission it reports for, as if CurrRequests counted
\* the calls in flight.
onSuccess_ReleasesRequest(counts) ==
  [counts EXCEPT !.CurrRequests = @ - 1,
                 !.TotalSuccesses = @ + 1,
                 !.ConsecutiveSuccesses = @ + 1,
                 !.ConsecutiveFailures = 0]

onSuccess(counts) ==
  [counts EXCEPT !.TotalSuccesses = @ + 1,
                 !.ConsecutiveSuccesses = @ + 1,
                 !.ConsecutiveFailures = 0]

onFailure(counts) ==
  [counts EXCEPT !.TotalFailures = @ + 1,
                 !.ConsecutiveFailures = @ + 1,
                 !.ConsecutiveSuccesses = 0]

\* afterRequest treating a failure in HalfOpen like a failure in Closed.
afterRequest_HalfOpenAsksShouldTrip(b, st, ok, t) ==
  IF ok
  THEN LET b1 == [b EXCEPT !.counts = onSuccess(@)]
       IN IF b1.counts.ConsecutiveSuccesses >= b1.maxRequests
          THEN setState(b1, StateClosed, t)
          ELSE b1
  ELSE IF st = StateClosed \/ st = StateHalfOpen
  THEN LET b1 == [b EXCEPT !.counts = onFailure(@)]
       IN IF ShouldTrip(b1.shouldTrip, b1.counts)
          THEN setState(b1, StateOpen, t)
          ELSE b1
  ELSE b

\* afterRequest closing on more than maxRequests consecutive successes.
afterRequest_ClosesLate(b, st, ok, t) ==
  IF ok
  THEN LET b1 == [b EXCEPT !.counts = onSuccess(@)]
       IN IF b1.counts.ConsecutiveSuccesses > b1.maxRequests
          THEN setState(b1, StateClosed, t)
          ELSE b1
  ELSE IF st = StateClosed
  THEN LET b1 == [b EXCEPT !.counts = onFailure(@)]
       IN IF ShouldTrip(b1.shouldTrip, b1.counts)
          THEN setState(b1, StateOpen, t)
          ELSE b1
  ELSE IF st = StateHalfOpen
  THEN setState(b, StateOpen, t)
  ELSE b

\* afterRequest asking the trip predicate after every counted outcome in Closed, a
\* success included.
afterRequest_TripsOnSuccess(b, st, ok, t) ==
  IF ok
  THEN LET b1 == [b EXCEPT !.counts = onSuccess(@)]
       IN IF b1.counts.ConsecutiveSuccesses >= b1.maxRequests
          THEN setState(b1, StateClosed, t)
          ELSE IF st = StateClosed /\ ShouldTrip(b1.shouldTrip, b1.counts)
          THEN setState(b1, StateOpen, t)
          ELSE b1
  ELSE IF st = StateClosed
  THEN LET b1 == [b EXCEPT !.counts = onFailure(@)]
       IN IF ShouldTrip(b1.shouldTrip, b1.counts)
          THEN setState(b1, StateOpen, t)
          ELSE b1
  ELSE IF st = StateHalfOpen
  THEN setState(b, StateOpen, t)
  ELSE b

\* afterRequest without the HalfOpen case of a failure.
afterRequest_HalfOpenIgnoresFailure(b, st, ok, t) ==
  IF ok
  THEN LET b1 == [b EXCEPT !.counts = onSuccess(@)]
       IN IF b1.counts.ConsecutiveSuccesses >= b1.maxRequests
          THEN setState(b1, StateClosed, t)
          ELSE b1
  ELSE IF st = StateClosed
  THEN LET b1 == [b EXCEPT !.counts = onFailure(@)]
       IN IF ShouldTrip(b1.shouldTrip, b1.counts)
          THEN setState(b1, StateOpen, t)
          ELSE b1
  ELSE b

\* Lines 245-265: st is the local state returned by currentState, t the local now.
afterRequest(b, st, ok, t) ==
  IF ok
  THEN LET b1 == [b EXCEPT !.counts = onSuccess(@)]
       IN IF b1.counts.ConsecutiveSuccesses >= b1.maxRequests
          THEN setState(b1, StateClosed, t)
          ELSE b1
  ELSE IF st = StateClosed
  THEN LET b1 == [b EXCEPT !.counts = onFailure(@)]
       IN IF ShouldTrip(b1.shouldTrip, b1.counts)
          THEN setState(b1, StateOpen, t)
          ELSE b1
  ELSE IF st = StateHalfOpen
  THEN setState(b, StateOpen, t)
  ELSE b

(* ---- Do / Allow: admission ---- *)

\* Do or Allow calls beforeRequest: cb.mutex.Lock().
BeforeRequestLock(c) ==
  /\ pc[c] \in CallSites("idle")
  /\ cb.counts.CurrRequests < MaxCurrRequests
  /\ Lock(cb, c)
  /\ cb' = Locked(cb, c)
  /\ pc' = [pc EXCEPT ![c] = "beforeRequest"]
  /\ ret' = NoRet
  /\ UNCHANGED <<clock, token, lnow, lstate, lgen, success, result>>

\* now := time.Now(); state, generation := cb.currentState(now)
BeforeRequestEval(c) ==
  /\ pc[c] = "beforeRequest"
  /\ LET b == currentState(cb, clock)
     IN /\ cb' = b
        /\ lnow' = [lnow EXCEPT ![c] = clock]
        /\ lstate' = [lstate EXCEPT ![c] = b.state]
        /\ lgen' = [lgen EXCEPT ![c] = b.generation]
        /\ pc' = [pc EXCEPT ![c] = IF Reenters(b) THEN "onStateChange"
                                   ELSE "beforeRequestEvaluated"]
  /\ ret' = NoRet
  /\ UNCHANGED <<clock, token, success, result>>

\* The two rejections: beforeRequest returns the error (the deferred Unlock runs) and
\* Do / Allow returns it to the caller without calling req.
BeforeRequestCheck(c) ==
  /\ pc[c] = "beforeRequestEvaluated"
  /\ LET e == beforeRequestError(cb, lstate[c])
     IN IF e = "nil"
        THEN /\ pc' = [pc EXCEPT ![c] = "beforeRequestAdmitted"]
             /\ ret' = NoRet
             /\ UNCHANGED <<cb, lnow, lstate, lgen>>
        ELSE /\ pc' = [pc EXCEPT ![c] = "idle"]
             /\ ret' = [NoRet EXCEPT !.op = "beforeRequest", !.who = c, !.err = e]
             /\ cb' = Unlock(cb)
             /\ ClearLocals(c)
  /\ UNCHANGED <<clock, token, success, result>>

\* cb.counts.CurrRequests++; return generation, nil (the deferred Unlock runs); Do
\* keeps the generation and calls req, Allow returns the closure over it.
BeforeRequestReturn(c) ==
  /\ pc[c] = "beforeRequestAdmitted"
  /\ cb' = Unlock(admit(cb))
  /\ token' = [token EXCEPT ![c] = lgen[c]]
  /\ pc' = [pc EXCEPT ![c] = "running"]
  /\ ret' = [NoRet EXCEPT !.op = "beforeRequest", !.who = c]
  /\ ClearLocals(c)
  /\ UNCHANGED <<clock, success, result>>

(* ---- Do / done: outcome report ---- *)

\* Do handing a panic to the classifier like a returned error.
DoReports_PanicClassified(kind, e) == IsSuccessful(kind, e)

\* The success Do reports for a req that returned e or panicked.
DoReports(kind, e) ==
  IF e = "panic" THEN FALSE ELSE IsSuccessful(kind, e)

\* req() returns e or panics; Do calls afterRequest: cb.mutex.Lock().
AfterRequestLock(c) ==
  /\ pc[c] = "running"
  /\ Lock(cb, c)
  /\ \E e \in {"nil", "fail", "panic"} :
       /\ success' = [success EXCEPT ![c] = DoReports(cb.isSuccessful, e)]
       /\ result' = [result EXCEPT ![c] = e]
  /\ cb' = Locked(cb, c)
  /\ pc' = [pc EXCEPT ![c] = "afterRequest"]
  /\ ret' = NoRet
  /\ UNCHANGED <<clock, token, lnow, lstate, lgen>>

\* A completion handle that reports against the generation the breaker is in.
done_CurrentGeneration(generation, ok) ==
  [before |-> cb.generation, success |-> ok]

\* The closure returned by Allow: the arguments it calls afterRequest with, for the
\* generation it closes over and the boolean it is called with.
done(generation, ok) ==
  [before |-> generation, success |-> ok]

\* The caller's operation ends with e and the caller calls done(e == nil), which calls
\* afterRequest: cb.mutex.Lock().
DoneLock(c) ==
  /\ pc[c] = "running"
  /\ Lock(cb, c)
  /\ \E e \in {"nil", "fail"} :
       LET call == done(token[c], e = "nil")
       IN /\ token' = [token EXCEPT ![c] = call.before]
          /\ success' = [success EXCEPT ![c] = call.success]
          /\ result' = [result EXCEPT ![c] = e]
  /\ cb' = Locked(cb, c)
  /\ pc' = [pc EXCEPT ![c] = "afterRequest"]
  /\ ret' = NoRet
  /\ UNCHANGED <<clock, lnow, lstate, lgen>>

\* now := time.Now(); state, generation := cb.currentState(now)
AfterRequestEval(c) ==
  /\ pc[c] = "afterRequest"
  /\ LET b == currentState(cb, clock)
     IN /\ cb' = b
        /\ lnow' = [lnow EXCEPT ![c] = clock]
        /\ lstate' = [lstate EXCEPT ![c] = b.state]
        /\ lgen' = [lgen EXCEPT ![c] = b.generation]
        /\ pc' = [pc EXCEPT ![c] = IF Reenters(b) THEN "onStateChange"
                                   ELSE "afterRequestEvaluated"]
  /\ ret' = NoRet
  /\ UNCHANGED <<clock, token, success, result>>

\* if generation != before { return } (the deferred Unlock runs); Do returns what
\* req returned, or panics again.
AfterRequestCheck(c) ==
  /\ pc[c] = "afterRequestEvaluated"
  /\ IF stale(token[c], lgen[c])
     THEN /\ pc' = [pc EXCEPT ![c] = "idle"]
          /\ ret' = [NoRet EXCEPT !.op = "afterRequest", !.who = c, !.err = result[c]]
          /\ cb' = Unlock(cb)
          /\ token' = [token EXCEPT ![c] = 0]
          /\ success' = [success EXCEPT ![c] = FALSE]
          /\ result' = [result EXCEPT ![c] = "none"]
          /\ ClearLocals(c)
     ELSE /\ pc' = [pc EXCEPT ![c] = "afterRequestCurrent"]
          /\ ret' = NoRet
          /\ UNCHANGED <<cb, token, success, result, lnow, lstate, lgen>>
  /\ UNCHANGED clock

\* The counters, the change of state, and the deferred Unlock; Do returns what req
\* returned, or panics again.
AfterRequestReturn(c) ==
  /\ pc[c] = "afterRequestCurrent"
  /\ LET b == afterRequest(cb, lstate[c], success[c], lnow[c])
     IN IF Reenters(b)
        THEN /\ cb' = b
             /\ pc' = [pc EXCEPT ![c] = "onStateChange"]
             /\ ret' = NoRet
             /\ UNCHANGED <<token, success, result, lnow, lstate, lgen>>
        ELSE /\ cb' = Unlock(b)
             /\ pc' = [pc EXCEPT ![c] = "idle"]
             /\ token' = [token EXCEPT ![c] = 0]
             /\ success' = [success EXCEPT ![c] = FALSE]
             /\ result' = [result EXCEPT ![c] = "none"]
             /\ ret' = [NoRet EXCEPT !.op = "afterRequest", !.who = c, !.err = result[c]]
             /\ ClearLocals(c)
  /\ UNCHANGED clock

(* ---- the accessors ---- *)

StateLock ==
  /\ pc[Observer] \in CallSites("idle")
  /\ Lock(cb, Observer)
  /\ cb' = Locked(cb, Observer)
  /\ pc' = [pc EXCEPT ![Observer] = "State"]
  /\ ret' = NoRet
  /\ UNCHANGED <<clock, token, lnow, lstate, lgen, success, result>>

\* now := time.Now(); state, _ := cb.currentState(now); return state
StateReturn ==
  /\ pc[Observer] = "State"
  /\ LET b == currentState(cb, clock)
     IN IF Reenters(b)
        THEN /\ cb' = b
             /\ pc' = [pc EXCEPT ![Observer] = "onStateChange"]
             /\ ret' = NoRet
        ELSE /\ cb' = Unlock(b)
             /\ pc' = [pc EXCEPT ![Observer] = "idle"]
             /\ ret' = [NoRet EXCEPT !.op = "State", !.who = Observer, !.state = b.state]
  /\ UNCHANGED <<clock, token, lnow, lstate, lgen, success, result>>

CountsLock ==
  /\ pc[Observer] \in CallSites("idle")
  /\ Lock(cb, Observer)
  /\ cb' = Locked(cb, Observer)
  /\ pc' = [pc EXCEPT ![Observer] = "Counts"]
  /\ ret' = NoRet
  /\ UNCHANGED <<clock, token, lnow, lstate, lgen, success, result>>

\* return cb.counts
CountsReturn ==
  /\ pc[Observer] = "Counts"
  /\ cb' = Unlock(cb)
  /\ ret' = [NoRet EXCEPT !.op = "Counts", !.who = Observer, !.counts = cb.counts]
  /\ pc' = [pc EXCEPT ![Observer] = "idle"]
  /\ UNCHANGED <<clock, token, lnow, lstate, lgen, success, result>>

(* ---- passage of time ---- *)

Tick ==
  /\ clock < MaxTime
  /\ clock' = clock + 1
  /\ ret' = NoRet
  /\ UNCHANGED <<cb, pc, token, lnow, lstate, lgen, success, result>>

Next ==
  \/ \E c \in Callers : BeforeRequestLock(c)
  \/ \E c \in Callers : BeforeRequestEval(c)
  \/ \E c \in Callers : BeforeRequestCheck(c)
  \/ \E c \in Callers : BeforeRequestReturn(c)
  \/ \E c \in Callers : AfterRequestLock(c)
  \/ \E c \in Callers : AfterRequestEval(c)
  \/ \E c \in Callers : AfterRequestCheck(c)
  \/ \E c \in Callers : AfterRequestReturn(c)
  \/ StateLock
  \/ StateReturn
  \/ CountsLock
  \/ CountsReturn
  \/ Tick

Spec == Init /\ [][Next]_vars

(* ---- a breaker whose classifier is replaced, as in TestCustomIsSuccessful ---- *)

\* cb.isSuccessful = func(err error) bool { return err == nil }, assigned by the test
\* between two calls.
SetIsSuccessful ==
  /\ cb.isSuccessful = "always"
  /\ \A g \in Goroutines : pc[g] = "idle"
  /\ cb' = [cb EXCEPT !.isSuccessful = "default"]
  /\ ret' = NoRet
  /\ UNCHANGED <<clock, pc, token, lnow, lstate, lgen, success, result>>

InitClassifier == Start({AllSuccessConfig})

NextClassifier ==
  \/ Next
  \/ SetIsSuccessful

SpecClassifier == InitClassifier /\ [][NextClassifier]_vars

(* ---- a breaker with an OnStateChange callback ---- *)

InitObserver == Start({TrackedConfig, ReentrantConfig})

SpecObserver == InitObserver /\ [][Next]_vars

(* ---- a TwoStepCircuitBreaker: the breaker behind Allow and done ---- *)

InitTwoStep == Start({DefaultConfig, CustomConfig})

NextTwoStep ==
  \/ \E c \in Callers : BeforeRequestLock(c)
  \/ \E c \in Callers : BeforeRequestEval(c)
  \/ \E c \in Callers : BeforeRequestCheck(c)
  \/ \E c \in Callers : BeforeRequestReturn(c)
  \/ \E c \in Callers : DoneLock(c)
  \/ \E c \in Callers : AfterRequestEval(c)
  \/ \E c \in Callers : AfterRequestCheck(c)
  \/ \E c \in Callers : AfterRequestReturn(c)
  \/ StateLock
  \/ StateReturn
  \/ CountsLock
  \/ CountsReturn
  \/ Tick

SpecTwoStep == InitTwoStep /\ [][NextTwoStep]_vars

(* ---- a TwoStepCircuitBreaker whose callers call done more than once ---- *)

\* AfterRequestReturn for a caller that keeps the closure it has just called, and can
\* call it again.  Callers keep a closure only while the generation has fewer
\* outcomes than admissions, which caps the counters.
DoneReturnKeepingHandle(c) ==
  /\ pc[c] = "afterRequestCurrent"
  /\ cb.counts.TotalSuccesses + cb.counts.TotalFailures < cb.counts.CurrRequests
  /\ LET b == afterRequest(cb, lstate[c], success[c], lnow[c])
     IN IF Reenters(b)
        THEN /\ cb' = b
             /\ pc' = [pc EXCEPT ![c] = "onStateChange"]
             /\ ret' = NoRet
             /\ UNCHANGED <<success, result, lnow, lstate, lgen>>
        ELSE /\ cb' = Unlock(b)
             /\ pc' = [pc EXCEPT ![c] = "running"]
             /\ success' = [success EXCEPT ![c] = FALSE]
             /\ result' = [result EXCEPT ![c] = "none"]
             /\ ret' = [NoRet EXCEPT !.op = "afterRequest", !.who = c, !.err = result[c]]
             /\ ClearLocals(c)
  /\ UNCHANGED <<clock, token>>

\* The custom configuration without the periodic reset.
NoResetConfig == [CustomConfig EXCEPT !.Interval = 0]

InitMisuse == Start({NoResetConfig})

\* The callers of Allow and done alone, without State and Counts.
NextMisuse ==
  \/ \E c \in Callers : BeforeRequestLock(c)
  \/ \E c \in Callers : BeforeRequestEval(c)
  \/ \E c \in Callers : BeforeRequestCheck(c)
  \/ \E c \in Callers : BeforeRequestReturn(c)
  \/ \E c \in Callers : DoneLock(c)
  \/ \E c \in Callers : AfterRequestEval(c)
  \/ \E c \in Callers : AfterRequestCheck(c)
  \/ \E c \in Callers : AfterRequestReturn(c)
  \/ \E c \in Callers : DoneReturnKeepingHandle(c)
  \/ Tick

SpecMisuse == InitMisuse /\ [][NextMisuse]_vars

(* ---- callers that keep calling Do, under a fair scheduler ---- *)

InitRecovery == Start({NoResetConfig})

\* The callers of Do alone, without State and Counts.
NextRecovery ==
  \/ \E c \in Callers : BeforeRequestLock(c)
  \/ \E c \in Callers : BeforeRequestEval(c)
  \/ \E c \in Callers : BeforeRequestCheck(c)
  \/ \E c \in Callers : BeforeRequestReturn(c)
  \/ \E c \in Callers : AfterRequestLock(c)
  \/ \E c \in Callers : AfterRequestEval(c)
  \/ \E c \in Callers : AfterRequestCheck(c)
  \/ \E c \in Callers : AfterRequestReturn(c)
  \/ Tick

\* The steps of c between a Lock and the return of the method.
Proceed(c) ==
  \/ BeforeRequestEval(c)
  \/ BeforeRequestCheck(c)
  \/ BeforeRequestReturn(c)
  \/ AfterRequestEval(c)
  \/ AfterRequestCheck(c)
  \/ AfterRequestReturn(c)

\* The goroutine inside a method runs on to its return (the Go scheduler resumes
\* every runnable goroutine); as long as callers are again and again free to call
\* Do, one of them does, and as long as guarded operations are again and again free
\* to report, one of them ends and reports (sync.Mutex hands the mutex to a waiter
\* that has waited for 1ms, so the goroutines at Lock are not starved by the others).
Fairness ==
  /\ WF_vars(\E c \in Callers : Proceed(c))
  /\ SF_vars(\E c \in Callers : BeforeRequestLock(c))
  /\ SF_vars(\E c \in Callers : AfterRequestLock(c))

SpecRecovery == InitRecovery /\ [][NextRecovery]_vars /\ Fairness

(* ---- vocabulary of the properties ---- *)

\* g takes a step of its own.
Step(g) == pc'[g] # pc[g]

\* g is about to call currentState: its next step is an observation of the breaker.
Observing(g) == pc[g] \in {"beforeRequest", "afterRequest", "State"}

\* c is inside beforeRequest, past its call of currentState.
Admitting(c) == pc[c] = "beforeRequestEvaluated"

\* c is inside afterRequest, past its call of currentState.
Reporting(c) == pc[c] = "afterRequestEvaluated"

\* c is inside afterRequest, past the comparison of the generations.
Applying(c) == pc[c] = "afterRequestCurrent"

\* c has been admitted and has not finished reporting.
InFlight(c) == pc[c] \in {"running", "afterRequest", "afterRequestEvaluated", "afterRequestCurrent"}

\* The callers that hold a token of the current generation.
Probes == {c \in Callers : InFlight(c) /\ token[c] = cb.generation}

Epoch(b) == <<b.state, b.generation, b.counts, b.expiry>>

Returned(op, e) == ret.op = op /\ ret.err = e

(* ---- C1 ---- *)
\* C1: a report whose token differs from the breaker's generation after the report's
\* own lazy evaluation returns without changing the state, the generation, the counts
\* or the expiry, whether it reports a success or a failure; only reports that hold
\* the token of the current generation get to the counters.
StaleReportDiscarded ==
  /\ [][\A c \in Callers :
          (Reporting(c) /\ cb.generation # token[c] /\ Step(c))
            => (pc'[c] = "idle" /\ Epoch(cb') = Epoch(cb))]_vars
  /\ [](\A c \in Callers : Applying(c) => token[c] = cb.generation)

\* A successful call of an earlier generation is about to return from its report
\* into a generation that has recorded outcomes of its own.
StaleReportWitness ==
  \E c \in Callers :
    /\ Reporting(c)
    /\ cb.generation # token[c]
    /\ success[c]
    /\ cb.counts.TotalFailures > 0
    /\ cb.counts.CurrRequests > cb.counts.TotalFailures

(* ---- C2 ---- *)
\* C2: while HalfOpen, currRequests never exceeds maxRequests and no more callers
\* than maxRequests hold a token of the generation; an admission check that finds
\* HalfOpen with currRequests >= maxRequests returns ErrTooManyRequests and leaves
\* the breaker as it is.
HalfOpenAdmissionBound ==
  /\ [](cb.state = StateHalfOpen =>
          /\ cb.counts.CurrRequests <= cb.maxRequests
          /\ Cardinality(Probes) <= cb.maxRequests)
  /\ [][\A c \in Callers :
          (/\ Admitting(c)
           /\ cb.state = StateHalfOpen
           /\ cb.counts.CurrRequests >= cb.maxRequests
           /\ Step(c))
            => /\ ret' = [NoRet EXCEPT !.op = "beforeRequest", !.who = c,
                                        !.err = "ErrTooManyRequests"]
               /\ pc'[c] = "idle"
               /\ Epoch(cb') = Epoch(cb)]_vars

\* A caller has just been refused with ErrTooManyRequests while another caller's
\* probe of the generation is still in flight.
HalfOpenAdmissionWitness ==
  /\ cb.state = StateHalfOpen
  /\ Returned("beforeRequest", "ErrTooManyRequests")
  /\ cb.counts.CurrRequests = cb.maxRequests
  /\ \E c \in Callers : c # ret.who /\ pc[c] = "running" /\ token[c] = cb.generation

(* ---- C3 ---- *)
AllowedTransitions ==
  {<<StateClosed, StateOpen>>, <<StateOpen, StateHalfOpen>>,
   <<StateHalfOpen, StateOpen>>, <<StateHalfOpen, StateClosed>>}

\* C3: the breaker starts Closed and every change of state is Closed->Open,
\* Open->HalfOpen, HalfOpen->Open or HalfOpen->Closed.
TransitionRelation ==
  /\ cb.state = StateClosed
  /\ [][cb'.state # cb.state => <<cb.state, cb'.state>> \in AllowedTransitions]_vars

\* Without interval resets the fourth generation is Closed only by way of
\* Closed->Open->HalfOpen->Closed.
TransitionWitness ==
  /\ cb.interval = 0
  /\ cb.generation = 4
  /\ cb.state = StateClosed

(* ---- C4 ---- *)
\* The policy of Config{}: the default trip predicate and no reset interval.
DefaultPolicy == cb.shouldTrip = "default" /\ cb.interval = 0

\* C4: under the default policy a Closed breaker never holds more than 5 consecutive
\* failures; a failure report moves it to Open exactly when 5 consecutive failures
\* are already recorded, and otherwise adds one to them; a success report puts the
\* consecutive failures back to zero; nothing else changes them.
DefaultTripsOnSixthFailure ==
  /\ [](DefaultPolicy /\ cb.state = StateClosed => cb.counts.ConsecutiveFailures <= 5)
  /\ [][(DefaultPolicy /\ cb.state = StateClosed) =>
          /\ \A c \in Callers :
               (Applying(c) /\ Step(c)) =>
                 IF success[c]
                 THEN cb'.state = StateClosed /\ cb'.counts.ConsecutiveFailures = 0
                 ELSE IF cb.counts.ConsecutiveFailures = 5
                 THEN cb'.state = StateOpen
                 ELSE /\ cb'.state = StateClosed
                      /\ cb'.counts.ConsecutiveFailures = cb.counts.ConsecutiveFailures + 1
          /\ (\A c \in Callers : ~(Applying(c) /\ Step(c))) =>
               /\ cb'.state = StateClosed
               /\ cb'.counts.ConsecutiveFailures = cb.counts.ConsecutiveFailures]_vars

\* The sixth failure in a row, after an earlier success, is about to be recorded.
DefaultTripWitness ==
  \E c \in Callers :
    /\ DefaultPolicy
    /\ cb.state = StateClosed
    /\ Applying(c)
    /\ ~success[c]
    /\ cb.counts.ConsecutiveFailures = 5
    /\ cb.counts.TotalSuccesses >= 1

(* ---- C5 ---- *)
\* C5: a report that holds the token of the current generation goes on to the
\* counters, and if it is a failure and the breaker is HalfOpen the breaker becomes
\* Open in a new generation with zero counts and expiry = the report's now + timeout.
HalfOpenFailureReopens ==
  [][\A c \in Callers :
       /\ (Reporting(c) /\ token[c] = cb.generation /\ Step(c))
            => (Applying(c)' /\ Epoch(cb') = Epoch(cb))
       /\ (Applying(c) /\ Step(c) /\ ~success[c] /\ cb.state = StateHalfOpen)
            => /\ cb'.state = StateOpen
               /\ cb'.generation = cb.generation + 1
               /\ cb'.counts = ZeroCounts
               /\ cb'.expiry = lnow[c] + cb.timeout]_vars

\* A probe is about to report a failure after a success of the same generation, with
\* counts the trip predicate would not trip on, and after the clock has moved on.
HalfOpenFailureWitness ==
  \E c \in Callers :
    /\ cb.state = StateHalfOpen
    /\ Applying(c)
    /\ ~success[c]
    /\ cb.counts.ConsecutiveSuccesses >= 1
    /\ ~ShouldTrip(cb.shouldTrip, onFailure(cb.counts))
    /\ lnow[c] < clock

(* ---- C6 ---- *)
\* C6: while HalfOpen every recorded outcome is a success and fewer than maxRequests
\* of them are recorded; a success report closes the breaker (new generation, zero
\* counts) exactly when it is the maxRequests-th, and otherwise adds one and leaves it
\* HalfOpen; the breaker becomes Closed by no other step; an admission check that
\* finds currRequests >= maxRequests is refused with ErrTooManyRequests.
HalfOpenCloses ==
  /\ [](cb.state = StateHalfOpen =>
          /\ cb.counts.ConsecutiveSuccesses < cb.maxRequests
          /\ cb.counts.ConsecutiveSuccesses = cb.counts.TotalSuccesses
          /\ cb.counts.TotalFailures = 0)
  /\ [][cb.state = StateHalfOpen =>
          /\ \A c \in Callers :
               (Applying(c) /\ Step(c) /\ success[c]) =>
                 IF cb.counts.ConsecutiveSuccesses + 1 = cb.maxRequests
                 THEN /\ cb'.state = StateClosed
                      /\ cb'.generation = cb.generation + 1
                      /\ cb'.counts = ZeroCounts
                 ELSE /\ cb'.state = StateHalfOpen
                      /\ cb'.generation = cb.generation
                      /\ cb'.counts = onSuccess(cb.counts)
          /\ cb'.state = StateClosed =>
               \E c \in Callers :
                 /\ Applying(c) /\ Step(c) /\ success[c]
                 /\ cb.counts.ConsecutiveSuccesses + 1 = cb.maxRequests
          /\ \A c \in Callers :
               (Admitting(c) /\ Step(c) /\ cb.counts.CurrRequests >= cb.maxRequests) =>
                 /\ pc'[c] = "idle"
                 /\ Returned("beforeRequest", "ErrTooManyRequests")'
                 /\ cb'.state = StateHalfOpen]_vars

\* With maxRequests >= 2, the last of the probes is about to report the success that
\* closes the breaker.
HalfOpenClosesWitness ==
  \E c \in Callers :
    /\ cb.state = StateHalfOpen
    /\ cb.maxRequests >= 2
    /\ Applying(c)
    /\ success[c]
    /\ cb.counts.ConsecutiveSuccesses = cb.maxRequests - 1

(* ---- C7 ---- *)
\* The cooldown of an Open breaker, with `due` saying when an observation ends it:
\* an observation (the currentState of an admission check, a report or a state query)
\* of an Open breaker makes it HalfOpen (new generation, zero counts, no expiry) when
\* due and changes nothing otherwise, and State() returns what results; nothing else
\* ends Open; an admission check that finds Open returns ErrOpenState without effect;
\* the breaker becomes Open only by a report, with expiry = that report's now +
\* timeout; an admission check that finds HalfOpen below the limit admits.
OpenCooldownWhen(due) ==
  /\ \A g \in Goroutines :
       (Observing(g) /\ Step(g) /\ cb.state = StateOpen) =>
         /\ IF due
            THEN /\ cb'.state = StateHalfOpen
                 /\ cb'.generation = cb.generation + 1
                 /\ cb'.counts = ZeroCounts
                 /\ cb'.expiry = ZeroTime
            ELSE Epoch(cb') = Epoch(cb)
         /\ g = Observer => (ret'.op = "State" /\ ret'.state = cb'.state)
  /\ (cb.state = StateOpen /\ cb'.state # StateOpen) =>
       (due /\ \E g \in Goroutines : Observing(g) /\ Step(g))
  /\ \A c \in Callers :
       (Admitting(c) /\ Step(c) /\ cb.state = StateOpen) =>
         /\ pc'[c] = "idle"
         /\ Returned("beforeRequest", "ErrOpenState")'
         /\ Epoch(cb') = Epoch(cb)
  /\ (cb.state # StateOpen /\ cb'.state = StateOpen) =>
       \E c \in Callers :
         Applying(c) /\ Step(c) /\ ~success[c] /\ cb'.expiry = lnow[c] + cb.timeout
  /\ \A c \in Callers :
       (/\ Admitting(c) /\ Step(c)
        /\ cb.state = StateHalfOpen
        /\ cb.counts.CurrRequests < cb.maxRequests) =>
         pc'[c] = "beforeRequestAdmitted"

\* C7 as claimed: the cooldown ends for every observation at a time >= the expiry
\* t0 + D, the expiry itself included.
OpenCooldownFromExpiry == [][OpenCooldownWhen(clock >= cb.expiry)]_vars

\* C7, amended: the cooldown ends for every observation at a time > t0 + D; an
\* observation at t0 + D exactly still finds the breaker Open.
OpenCooldown == [][OpenCooldownWhen(clock > cb.expiry)]_vars

\* State() has just returned Open at the very time of the expiry.
OpenCooldownWitness ==
  /\ ret.op = "State"
  /\ ret.state = StateOpen
  /\ cb.state = StateOpen
  /\ clock = cb.expiry

(* ---- C8 ---- *)
\* The reset of a Closed breaker with an interval, with `due` saying when an
\* observation resets: an observation of such a breaker starts a new Closed generation
\* with zero counts and expiry = now + interval when due, and changes nothing
\* otherwise; the generation of a breaker that stays Closed changes by nothing else.
PeriodicResetWhen(due) ==
  (cb.state = StateClosed /\ cb.interval > 0) =>
    /\ \A g \in Goroutines :
         (Observing(g) /\ Step(g)) =>
           IF due
           THEN /\ cb'.state = StateClosed
                /\ cb'.generation = cb.generation + 1
                /\ cb'.counts = ZeroCounts
                /\ cb'.expiry = clock + cb.interval
           ELSE Epoch(cb') = Epoch(cb)
    /\ (cb'.state = StateClosed /\ cb'.generation # cb.generation) =>
         (due /\ \E g \in Goroutines : Observing(g) /\ Step(g))

\* C8 as claimed: the counts are reset by every observation at a time >= the expiry
\* s + T, the expiry itself included.
PeriodicResetFromExpiry == [][PeriodicResetWhen(clock >= cb.expiry)]_vars

\* C8, amended: the counts are reset by every observation at a time > s + T; an
\* observation at s + T exactly still finds the counts of the generation.
PeriodicReset == [][PeriodicResetWhen(clock > cb.expiry)]_vars

\* After one reset, State() has just returned at the very time of the new expiry and
\* the counts of the second generation are still there.
PeriodicResetWitness ==
  /\ ret.op = "State"
  /\ cb.state = StateClosed
  /\ cb.interval > 0
  /\ cb.generation = 2
  /\ clock = cb.expiry
  /\ cb.counts.CurrRequests > 0

(* ---- C9 ---- *)
\* The time-based transition of b is due at time t.
Elapsed(b, t) ==
  \/ b.state = StateClosed /\ b.expiry # ZeroTime /\ b.expiry < t
  \/ b.state = StateOpen /\ b.expiry < t

\* C9: when State() returns, no time-based transition is left undone and the state
\* returned is the state of the breaker; the counts Counts() returns are all zero, the
\* counts of the new generation, when a time-based transition is due, and the counts
\* of the breaker otherwise.
AccessorsApplyLazyTransition ==
  /\ ret.op = "State" => (~Elapsed(cb, clock) /\ ret.state = cb.state)
  /\ ret.op = "Counts" =>
       ret.counts = (IF Elapsed(cb, clock) THEN ZeroCounts ELSE cb.counts)

(* ---- C10 ---- *)
\* C10: in a Closed generation in which no failure has been recorded, the successes
\* recorded and the calls still in flight add up to the admissions, the consecutive
\* successes are the successes and there are no consecutive failures; a success report
\* adds exactly one success and leaves the breaker Closed in its generation.
ConcurrentCounting ==
  /\ []((cb.state = StateClosed /\ cb.counts.TotalFailures = 0) =>
          /\ cb.counts.CurrRequests = cb.counts.TotalSuccesses + Cardinality(Probes)
          /\ cb.counts.ConsecutiveSuccesses = cb.counts.TotalSuccesses
          /\ cb.counts.ConsecutiveFailures = 0)
  /\ [][\A c \in Callers :
          (Applying(c) /\ Step(c) /\ success[c] /\ cb.state = StateClosed) =>
            /\ cb'.state = StateClosed
            /\ cb'.generation = cb.generation
            /\ cb'.counts.CurrRequests = cb.counts.CurrRequests
            /\ cb'.counts.TotalSuccesses = cb.counts.TotalSuccesses + 1
            /\ cb'.counts.ConsecutiveSuccesses = cb.counts.ConsecutiveSuccesses + 1
            /\ cb'.counts.TotalFailures = cb.counts.TotalFailures
            /\ cb'.counts.ConsecutiveFailures = 0]_vars

\* The last of at least three admitted calls of a generation has just reported its
\* success, and all of them are counted.
ConcurrentCountingWitness ==
  /\ ret.op = "afterRequest"
  /\ cb.state = StateClosed
  /\ Probes = {}
  /\ cb.counts.CurrRequests >= 3
  /\ cb.counts.TotalSuccesses = cb.counts.CurrRequests
  /\ cb.counts.ConsecutiveSuccesses = cb.counts.CurrRequests

(* ---- C11 ---- *)
\* C11: a req that panics is reported as a failure whatever the classifier says, and
\* the report has the effect of the report of a returned error under the default
\* classifier: in Closed one more total and consecutive failure, no consecutive
\* success, CurrRequests and the successes as they were, Open in a new generation if
\* the trip predicate holds of the new counts; in HalfOpen, Open in a new generation;
\* nothing if the token is stale.  The step that ends the report releases the mutex
\* and Do panics again with the same value.
PanicCountsAsFailure ==
  /\ [](\A c \in Callers : result[c] = "panic" => ~success[c])
  /\ [][\A c \in Callers :
          (result[c] = "panic" /\ Step(c)) =>
            /\ Reporting(c) =>
                 IF token[c] = cb.generation
                 THEN Applying(c)' /\ Epoch(cb') = Epoch(cb)
                 ELSE /\ Epoch(cb') = Epoch(cb)
                      /\ cb'.mutex = NoOne
                      /\ ret' = [NoRet EXCEPT !.op = "afterRequest", !.who = c,
                                               !.err = "panic"]
            /\ Applying(c) =>
                 /\ cb'.mutex = NoOne
                 /\ ret' = [NoRet EXCEPT !.op = "afterRequest", !.who = c, !.err = "panic"]
                 /\ pc'[c] = "idle"
                 /\ IF cb.state = StateHalfOpen
                       \/ ShouldTrip(cb.shouldTrip, onFailure(cb.counts))
                    THEN /\ cb'.state = StateOpen
                         /\ cb'.generation = cb.generation + 1
                         /\ cb'.counts = ZeroCounts
                    ELSE /\ cb'.state = cb.state
                         /\ cb'.generation = cb.generation
                         /\ cb'.expiry = cb.expiry
                         /\ cb'.counts = onFailure(cb.counts)]_vars

\* Under a classifier that calls every outcome a success, a panic is about to be
\* counted after a returned error was counted as a success.
PanicWitness ==
  \E c \in Callers :
    /\ cb.isSuccessful = "always"
    /\ Applying(c)
    /\ result[c] = "panic"
    /\ cb.counts.TotalSuccesses >= 1
    /\ cb.counts.CurrRequests >= 2

(* ---- C12 ---- *)
\* b refuses admission: it is Open, or HalfOpen with maxRequests admissions.
Refuses(b) ==
  \/ b.state = StateOpen
  \/ b.state = StateHalfOpen /\ b.counts.CurrRequests >= b.maxRequests

\* C12: the lazy evaluation of an admission check that is going to be refused changes
\* nothing; the check then returns ErrOpenState for Open and ErrTooManyRequests for
\* HalfOpen at the limit, leaves state, generation, counts and expiry as they are,
\* hands out no token and does not run req; no other goroutine changes the breaker
\* during the call; req runs only after an admission.
RejectionHasNoEffect ==
  [][\A c \in Callers :
       /\ (pc[c] = "beforeRequest" /\ Step(c) /\ Refuses(cb')) => Epoch(cb') = Epoch(cb)
       /\ (Admitting(c) /\ Step(c) /\ Refuses(cb)) =>
            /\ pc'[c] = "idle"
            /\ ret' = [NoRet EXCEPT !.op = "beforeRequest", !.who = c,
                                     !.err = IF cb.state = StateOpen THEN "ErrOpenState"
                                             ELSE "ErrTooManyRequests"]
            /\ Epoch(cb') = Epoch(cb)
            /\ token'[c] = token[c]
       /\ (pc[c] \in {"beforeRequest", "beforeRequestEvaluated"} /\ ~Step(c)) =>
            Epoch(cb') = Epoch(cb)
       /\ (pc'[c] = "running" /\ pc[c] # "running") =>
            (pc[c] = "beforeRequestAdmitted" /\ ~Refuses(cb))]_vars

\* A call has just been refused with ErrOpenState at the very time of the expiry,
\* while another caller's call of the generation before is still running.
RejectionWitness ==
  /\ Returned("beforeRequest", "ErrOpenState")
  /\ cb.state = StateOpen
  /\ clock = cb.expiry
  /\ pc[ret.who] = "idle"
  /\ \E d \in Callers : pc[d] = "running" /\ token[d] < cb.generation

(* ---- C13 ---- *)
\* C13: a step that changes the state calls the callback exactly once, with the state
\* before and the state after; a step that leaves the state as it is (an interval
\* reset, a success or a failure counted in Closed, an admission, a refusal, a query)
\* does not call it; the callback is never called with from = to, and the last call
\* was made with the state the breaker is in.
ObserverNotified ==
  /\ [][IF cb'.state # cb.state
        THEN cb'.onStateChange = [cb.onStateChange EXCEPT !.calls = @ + 1,
                                                          !.from = cb.state,
                                                          !.to = cb'.state]
        ELSE cb'.onStateChange = cb.onStateChange]_vars
  /\ [](cb.onStateChange.calls > 0 =>
          /\ cb.onStateChange.from # cb.onStateChange.to
          /\ cb.onStateChange.to = cb.state)

\* The tracking callback has been called three times, the last time for
\* HalfOpen->Closed, and an interval reset and a success in Closed have followed
\* without a call.
ObserverNotifiedWitness ==
  /\ cb.onStateChange.kind = "track"
  /\ cb.onStateChange.calls = 3
  /\ cb.onStateChange.from = StateHalfOpen
  /\ cb.onStateChange.to = StateClosed
  /\ cb.generation = 5
  /\ cb.counts.TotalSuccesses >= 1

(* ---- C14 ---- *)
\* g is inside an onStateChange that calls a method of the breaker.
InCallback(g) == pc[g] = "onStateChange"

\* C14: on a breaker whose callback calls back into it, the step that changes the
\* state leaves the goroutine that took it inside the callback with the mutex held; a
\* goroutine inside the callback holds the mutex, and from then on it never leaves
\* the callback, the breaker never changes and no goroutine gets any further.
ReentrantObserverDeadlocks ==
  /\ [](\A g \in Goroutines : InCallback(g) => cb.mutex = g)
  /\ [][/\ (cb.onStateChange.kind = "reenter" /\ cb'.state # cb.state) =>
             \E g \in Goroutines : Step(g) /\ InCallback(g)' /\ cb'.mutex = g
        /\ (\E g \in Goroutines : InCallback(g)) =>
             (pc' = pc /\ cb' = cb /\ token' = token)]_vars

\* A caller has been inside the callback for two units of time since its report
\* tripped the breaker, and another caller's admitted call cannot report.
ReentrantObserverWitness ==
  \E c \in Callers :
    /\ InCallback(c)
    /\ cb.state = StateOpen
    /\ clock >= lnow[c] + 2
    /\ \E d \in Callers : pc[d] = "running"

(* ---- C15 ---- *)
\* C15: every step of a breaker driven through Allow and done is a step of the breaker
\* driven through Do: an Allow is the admission of a Do, and done(e == nil) for the
\* handle of an admission is the report of the Do of that admission whose req
\* returned e, with the same token, the same success and the same effect on state,
\* generation, counts and expiry.
TwoStepBehavesAsDo == [][Next]_vars

\* A handle from a Closed generation has just reported a failure into the HalfOpen
\* generation two changes of state later, where it is stale, while the probe of that
\* generation is running.
TwoStepWitness ==
  /\ ret.op = "afterRequest"
  /\ ret.err = "fail"
  /\ cb.state = StateHalfOpen
  /\ cb.counts.CurrRequests = 1
  /\ \E d \in Callers : d # ret.who /\ pc[d] = "running" /\ token[d] = cb.generation

(* ---- C16 ---- *)
\* C16: a report through a handle whose token is the generation of the breaker is
\* applied whatever has been recorded for the generation already: it goes on to the
\* counters, where a success adds one total and one consecutive success, or closes a
\* HalfOpen breaker when it is the maxRequests-th consecutive one, and a failure in
\* Closed adds one total and one consecutive failure, or trips the breaker.
HandleReuseCounts ==
  [][\A c \in Callers :
       /\ (Reporting(c) /\ Step(c) /\ token[c] = cb.generation) => Applying(c)'
       /\ (Applying(c) /\ Step(c) /\ success[c]) =>
            IF cb.state = StateHalfOpen
               /\ cb.counts.ConsecutiveSuccesses + 1 >= cb.maxRequests
            THEN cb'.state = StateClosed /\ cb'.generation = cb.generation + 1
            ELSE cb'.generation = cb.generation /\ cb'.counts = onSuccess(cb.counts)
       /\ (Applying(c) /\ Step(c) /\ ~success[c] /\ cb.state = StateClosed) =>
            IF ShouldTrip(cb.shouldTrip, onFailure(cb.counts))
            THEN cb'.state = StateOpen /\ cb'.generation = cb.generation + 1
            ELSE cb'.generation = cb.generation /\ cb'.counts = onFailure(cb.counts)]_vars

\* The only probe admitted to a HalfOpen breaker with maxRequests = 2 has reported one
\* success and is about to report the second, which closes the breaker.
HandleReuseWitness ==
  \E c \in Callers :
    /\ cb.state = StateHalfOpen
    /\ cb.maxRequests = 2
    /\ cb.counts.CurrRequests = 1
    /\ cb.counts.ConsecutiveSuccesses = 1
    /\ Applying(c)
    /\ success[c]

(* ---- C17 ---- *)
\* C17: while the classifier calls every outcome a success, every req that returns,
\* with an error or without, is reported as a success; the report of a returned error
\* that was classified a success adds one total and one consecutive success, leaves
\* the breaker in its state and generation, and Do returns the error; the breaker goes
\* from Closed to Open only by a report of a failure, which under that classifier is
\* a panic; replacing the classifier leaves state, generation, counts and expiry as
\* they are, and under the default classifier a returned error is reported as a
\* failure.
ClassifierDecides ==
  [][/\ \A c \in Callers :
          /\ (pc[c] = "running" /\ Step(c) /\ result'[c] # "panic") =>
               success'[c] = (cb.isSuccessful = "always" \/ result'[c] = "nil")
          /\ (Applying(c) /\ Step(c) /\ result[c] = "fail" /\ success[c]) =>
               /\ cb'.counts = onSuccess(cb.counts)
               /\ cb'.state = cb.state
               /\ cb'.generation = cb.generation
               /\ ret' = [NoRet EXCEPT !.op = "afterRequest", !.who = c, !.err = "fail"]
     /\ (cb.state = StateClosed /\ cb'.state = StateOpen) =>
          \E c \in Callers :
            /\ Applying(c) /\ Step(c) /\ ~success[c]
            /\ cb.isSuccessful = "always" => result[c] = "panic"
     /\ cb'.isSuccessful # cb.isSuccessful => Epoch(cb') = Epoch(cb)]_vars

\* Under the classifier that calls every outcome a success, the seventh call of a
\* Closed breaker is about to be counted as a success although it returned an error,
\* after six successes in a row.
ClassifierWitness ==
  \E c \in Callers :
    /\ cb.isSuccessful = "always"
    /\ cb.state = StateClosed
    /\ Applying(c)
    /\ result[c] = "fail"
    /\ success[c]
    /\ cb.counts.ConsecutiveSuccesses = 6

\* After the classifier was replaced by the default one, a returned error is about to
\* be counted as the sixth consecutive failure, next to a success counted before.
ClassifierSwitchedWitness ==
  \E c \in Callers :
    /\ cb.isSuccessful = "default"
    /\ Applying(c)
    /\ result[c] = "fail"
    /\ cb.counts.ConsecutiveFailures = 5
    /\ cb.counts.TotalSuccesses >= 1

(* ---- C18 ---- *)
\* The configurations with every limit and duration within the bounds.
ConfigSpace ==
  [MaxRequests : 0..CustomMaxRequests,
   Interval : (-CustomInterval)..CustomInterval,
   Timeout : (-CustomTimeout)..CustomTimeout,
   ShouldTrip : {"nil", "ratio"},
   OnStateChange : {"nil", "track"},
   IsSuccessful : {"nil", "always"}]

\* b is what the claim says New(cfg) returns at time t.
Normalised(cfg, b, t) ==
  /\ b.maxRequests = (IF cfg.MaxRequests = 0 THEN 1 ELSE cfg.MaxRequests)
  /\ b.interval = (IF cfg.Interval <= 0 THEN 0 ELSE cfg.Interval)
  /\ b.timeout = (IF cfg.Timeout <= 0 THEN 60 ELSE cfg.Timeout)
  /\ b.state = StateClosed
  /\ b.counts = ZeroCounts
  /\ b.expiry = (IF cfg.Interval <= 0 THEN ZeroTime ELSE t + cfg.Interval)

\* C18: the breaker New(cfg) has just returned has maxRequests 1 for a MaxRequests of
\* 0, interval 0 and no expiry for an Interval <= 0, timeout 60 for a Timeout <= 0, the
\* values of cfg otherwise, and is Closed with all counts zero; and so is New(cfg) for
\* every cfg within the bounds.
PolicyNormalised ==
  ret.op = "New" =>
    /\ Normalised(ret.cfg, cb, clock)
    /\ \A cfg \in ConfigSpace : Normalised(cfg, New(cfg, clock), clock)

\* New has just returned the breaker of a configuration with negative durations.
PolicyNormalisedWitness ==
  /\ ret.op = "New"
  /\ ret.cfg.Interval < 0
  /\ ret.cfg.Timeout < 0
  /\ ret.cfg.MaxRequests = 0
  /\ cb.interval = 0
  /\ cb.timeout = 60
  /\ cb.maxRequests = 1
  /\ cb.expiry = ZeroTime

(* ---- C19 ---- *)
\* C19: the consecutive successes and the consecutive failures are never both
\* non-zero, and they are both zero exactly when the generation has no success and no
\* failure recorded.
ConsecutiveCountersExclusive ==
  /\ ~(cb.counts.ConsecutiveSuccesses > 0 /\ cb.counts.ConsecutiveFailures > 0)
  /\ (cb.counts.ConsecutiveSuccesses = 0 /\ cb.counts.ConsecutiveFailures = 0)
       <=> (cb.counts.TotalSuccesses = 0 /\ cb.counts.TotalFailures = 0)

\* A success has just been recorded after failures of the same generation.
ConsecutiveCountersWitness ==
  /\ ret.op = "afterRequest"
  /\ ret.err = "nil"
  /\ cb.counts.TotalFailures >= 2
  /\ cb.counts.ConsecutiveSuccesses = 1
  /\ cb.counts.ConsecutiveFailures = 0

(* ---- C20 ---- *)
\* The periodic reset of b is due at time t.
ResetDue(b, t) == b.state = StateClosed /\ b.expiry # ZeroTime /\ b.expiry < t

\* C20: the generation starts at 1 and a step leaves it as it is or adds one; it adds
\* one when the state changes and when an observation finds the periodic reset due,
\* and only then; a step that adds one leaves all five counters zero; a step that
\* leaves the generation as it is lowers no counter, except that a failure puts the
\* consecutive successes to zero and a success the consecutive failures.
GenerationAndCounts ==
  /\ [](cb.generation >= 1)
  /\ [][/\ cb'.generation \in {cb.generation, cb.generation + 1}
        /\ cb'.state # cb.state => cb'.generation = cb.generation + 1
        /\ \A g \in Goroutines :
             (Observing(g) /\ Step(g) /\ ResetDue(cb, clock)) =>
               cb'.generation = cb.generation + 1
        /\ cb'.generation # cb.generation =>
             \/ cb'.state # cb.state
             \/ ResetDue(cb, clock) /\ \E g \in Goroutines : Observing(g) /\ Step(g)
        /\ cb'.generation # cb.generation => cb'.counts = ZeroCounts
        /\ cb'.generation = cb.generation =>
             /\ cb'.counts.CurrRequests >= cb.counts.CurrRequests
             /\ cb'.counts.TotalSuccesses >= cb.counts.TotalSuccesses
             /\ cb'.counts.TotalFailures >= cb.counts.TotalFailures
             /\ cb'.counts.ConsecutiveSuccesses < cb.counts.ConsecutiveSuccesses =>
                  /\ cb'.counts.ConsecutiveSuccesses = 0
                  /\ cb'.counts.TotalFailures = cb.counts.TotalFailures + 1
             /\ cb'.counts.ConsecutiveFailures < cb.counts.ConsecutiveFailures =>
                  /\ cb'.counts.ConsecutiveFailures = 0
                  /\ cb'.counts.TotalSuccesses = cb.counts.TotalSuccesses + 1]_vars

\* A report has just returned and left the breaker at the start of its fifth
\* generation: Closed, all counts zero, the expiry one interval from now.
GenerationWitness ==
  /\ ret.op = "afterRequest"
  /\ cb.state = StateClosed
  /\ cb.generation = 5
  /\ cb.counts = ZeroCounts
  /\ cb.expiry = clock + cb.interval

(* ---- C21 ---- *)
\* The now of the step g takes: the time its call of currentState read, which for
\* the last step of a report is the one read before the comparison of generations.
NowOf(g) == IF g \in Callers /\ Applying(g) THEN lnow[g] ELSE clock

\* The expiry of a generation of b that starts at time t.
ExpiryFrom(b, t) ==
  IF b.state = StateClosed
  THEN (IF b.interval = 0 THEN ZeroTime ELSE t + b.interval)
  ELSE IF b.state = StateOpen THEN t + b.timeout
  ELSE ZeroTime

\* C21: in every reachable state the expiry is unset exactly when the breaker is
\* HalfOpen, or Closed with no interval; a Closed breaker with an interval T has the
\* expiry s + T and an Open one s + timeout, for a time s from the construction to
\* now; s is the start of the generation: a step that starts a generation sets the
\* expiry from its own now, and a step that starts none leaves the expiry alone.
ExpiryInvariant ==
  /\ [](cb.expiry = ZeroTime <=>
          (cb.state = StateHalfOpen \/ (cb.state = StateClosed /\ cb.interval = 0)))
  /\ []((cb.state = StateClosed /\ cb.interval > 0) =>
          cb.expiry - cb.interval \in 1..clock)
  /\ [](cb.state = StateOpen => cb.expiry - cb.timeout \in 1..clock)
  /\ [][/\ cb'.generation = cb.generation => cb'.expiry = cb.expiry
        /\ \A g \in Goroutines :
             (Step(g) /\ cb'.generation # cb.generation) =>
               cb'.expiry = ExpiryFrom(cb', NowOf(g))]_vars

\* A report has just closed a breaker that has an interval, with a now that the clock
\* has left behind: the expiry counts from the report's now.
ExpiryWitness ==
  /\ ret.op = "afterRequest"
  /\ cb.state = StateClosed
  /\ cb.interval > 0
  /\ cb.counts = ZeroCounts
  /\ cb.generation >= 4
  /\ cb.expiry < clock + cb.interval

(* ---- C23 ---- *)
\* C23: a Closed breaker becomes Open only by the last step of a failure report that
\* holds the token of the current generation, and such a step opens it exactly when
\* the trip predicate holds of the counts with that failure added; a success report
\* never opens the breaker, whatever the predicate says of the counts; a report in
\* HalfOpen opens it exactly when it is a failure, whatever the predicate says; no
\* other step (admission, state query, counts query, discarded report, tick) takes
\* the breaker into Open.
TripEvaluationPoint ==
  [][/\ (cb.state = StateClosed /\ cb'.state = StateOpen) =>
          \E c \in Callers :
            /\ Applying(c) /\ Step(c)
            /\ ~success[c]
            /\ token[c] = cb.generation
            /\ ShouldTrip(cb.shouldTrip, onFailure(cb.counts))
     /\ \A c \in Callers :
          (Applying(c) /\ Step(c)) =>
            IF success[c] THEN cb'.state # StateOpen
            ELSE IF cb.state = StateClosed
            THEN cb'.state = StateOpen <=> ShouldTrip(cb.shouldTrip, onFailure(cb.counts))
            ELSE cb.state = StateHalfOpen /\ cb'.state = StateOpen
     /\ (cb.state # StateOpen /\ cb'.state = StateOpen) =>
          \E c \in Callers : Applying(c) /\ Step(c)]_vars

\* A success has just been recorded in Closed and the counts with it satisfy the trip
\* predicate: the breaker is still Closed.
TripEvaluationWitness ==
  /\ ret.op = "afterRequest"
  /\ ret.err = "nil"
  /\ cb.state = StateClosed
  /\ cb.counts.ConsecutiveSuccesses = 1
  /\ ShouldTrip(cb.shouldTrip, cb.counts)

(* ---- C24 ---- *)
\* C24: the admissions of the current generation are its recorded outcomes plus the
\* calls admitted in it that have not finished reporting, so a call that never
\* reports stays counted in CurrRequests as long as its generation lasts; a step
\* lowers CurrRequests only by starting a generation, which puts it to zero.
AbandonedAdmissionStays ==
  /\ [](cb.counts.CurrRequests =
          cb.counts.TotalSuccesses + cb.counts.TotalFailures + Cardinality(Probes))
  /\ [][cb'.counts.CurrRequests < cb.counts.CurrRequests =>
          (cb'.generation # cb.generation /\ cb'.counts.CurrRequests = 0)]_vars

\* A call admitted in the first generation is still running when State() returns
\* Closed at the last time of the clock, after other calls have come and gone: it is
\* the one admission without an outcome.
AbandonedAdmissionWitness ==
  /\ ret.op = "State"
  /\ ret.state = StateClosed
  /\ clock = MaxTime
  /\ cb.generation = 1
  /\ Cardinality(Probes) = 1
  /\ \A c \in Callers : pc[c] \in {"idle", "running"}
  /\ cb.counts.TotalSuccesses >= 1
  /\ cb.counts.TotalFailures >= 1
  /\ cb.counts.CurrRequests = cb.counts.TotalSuccesses + cb.counts.TotalFailures + 1

(* ---- C25 ---- *)
\* C25: while the breaker is HalfOpen, every step other than the last step of an
\* admission or of a report that holds the current token (a tick of the clock, a
\* state query, a counts query, a lazy evaluation, a rejected admission, a discarded
\* report) leaves the state, the generation, the counts and the expiry as they are;
\* an admission adds one to CurrRequests and nothing else; and once maxRequests
\* probes are admitted, every admission check is refused with ErrTooManyRequests
\* and leaves the breaker HalfOpen, so that only a report of a probe ends it.
HalfOpenNoTimedExit ==
  [][cb.state = StateHalfOpen =>
       /\ Epoch(cb') # Epoch(cb) =>
            \E c \in Callers :
              /\ Step(c)
              /\ pc[c] \in {"beforeRequestAdmitted", "afterRequestCurrent"}
              /\ cb.generation \in {token[c], token'[c]}
       /\ \A c \in Callers :
            (pc[c] = "beforeRequestAdmitted" /\ Step(c)) =>
              /\ cb'.state = StateHalfOpen
              /\ cb'.generation = cb.generation
              /\ cb'.counts = admit(cb).counts
       /\ \A c \in Callers :
            (Admitting(c) /\ Step(c) /\ cb.counts.CurrRequests = cb.maxRequests) =>
              /\ Returned("beforeRequest", "ErrTooManyRequests")'
              /\ Epoch(cb') = Epoch(cb)
       /\ cb.counts.CurrRequests <= cb.maxRequests]_vars

\* At the last time of the clock an admission check has just been refused with
\* ErrTooManyRequests by a HalfOpen breaker all of whose probes are admitted and
\* still running.
HalfOpenStuckWitness ==
  /\ Returned("beforeRequest", "ErrTooManyRequests")
  /\ cb.state = StateHalfOpen
  /\ clock = MaxTime
  /\ cb.counts.CurrRequests = cb.maxRequests
  /\ cb.counts.TotalSuccesses = 0
  /\ Cardinality(Probes) = cb.maxRequests
  /\ \A c \in Probes : pc[c] = "running"

(* ---- C27 ---- *)
\* C27: while the breaker is Open all five counters are zero, every call in flight
\* holds a token older than the generation, and no report is past the comparison of
\* generations; a step of a report taken while Open, its lazy evaluation or the
\* comparison, leaves the counters zero, the breaker Open or HalfOpen, and never
\* gets the report to the counters.
NoOutcomeWhileOpen ==
  /\ [](cb.state = StateOpen =>
          /\ cb.counts = ZeroCounts
          /\ \A c \in Callers :
               /\ InFlight(c) => token[c] < cb.generation
               /\ ~Applying(c))
  /\ [][\A c \in Callers :
          (/\ cb.state = StateOpen
           /\ pc[c] \in {"afterRequest", "afterRequestEvaluated"}
           /\ Step(c)) =>
            /\ cb'.counts = ZeroCounts
            /\ cb'.state \in {StateOpen, StateHalfOpen}
            /\ pc'[c] \in {"afterRequestEvaluated", "idle"}]_vars

\* A call admitted before the trip has just reported its success to the Open
\* breaker, which is still Open with zero counts.
LateSuccessWitness ==
  /\ ret.op = "afterRequest"
  /\ ret.err = "nil"
  /\ cb.state = StateOpen
  /\ cb.counts = ZeroCounts
  /\ clock <= cb.expiry

(* ---- C28 ---- *)
\* C28: with callers that report each admitted call at most once, in every
\* reachable state the recorded outcomes are no more than the admissions, the
\* consecutive successes no more than the successes and the consecutive failures no
\* more than the failures.
OutcomesWithinAdmissions ==
  /\ cb.counts.TotalSuccesses + cb.counts.TotalFailures <= cb.counts.CurrRequests
  /\ cb.counts.ConsecutiveSuccesses <= cb.counts.TotalSuccesses
  /\ cb.counts.ConsecutiveFailures <= cb.counts.TotalFailures

\* The last of the admitted calls has just reported: every admission has its
\* outcome, successes and failures among them, the latest run of failures shorter
\* than their total.
OutcomesWitness ==
  /\ ret.op = "afterRequest"
  /\ cb.counts.CurrRequests >= 4
  /\ cb.counts.TotalSuccesses + cb.counts.TotalFailures = cb.counts.CurrRequests
  /\ cb.counts.TotalSuccesses >= 1
  /\ cb.counts.ConsecutiveFailures >= 1
  /\ cb.counts.ConsecutiveFailures < cb.counts.TotalFailures

(* ---- C29 ---- *)
\* C29: an observation at time t that finds the periodic reset due (t after the
\* expiry, by however many intervals) starts one generation, whose expiry is
\* t + interval, so that no further reset is due at t; and the report that opens the
\* breaker starts one generation whose expiry is the report's now + timeout.
ExpiryFromObservation ==
  [][/\ \A g \in Goroutines :
          (Observing(g) /\ Step(g) /\ ResetDue(cb, clock)) =>
            /\ cb'.state = StateClosed
            /\ cb'.generation = cb.generation + 1
            /\ cb'.expiry = clock + cb.interval
            /\ ~ResetDue(cb', clock)
     /\ \A c \in Callers :
          (Applying(c) /\ Step(c) /\ cb'.state = StateOpen) =>
            /\ cb'.generation = cb.generation + 1
            /\ cb'.expiry = lnow[c] + cb.timeout]_vars

\* State() has just returned at a time when two whole intervals and more have passed
\* since the construction, and it was the first observation after the first expiry:
\* the breaker is in its second generation, with the expiry one interval from now.
LateResetWitness ==
  /\ ret.op = "State"
  /\ cb.state = StateClosed
  /\ cb.interval > 0
  /\ cb.generation = 2
  /\ clock > 1 + 2 * cb.interval
  /\ cb.expiry = clock + cb.interval

(* ---- C22 ---- *)
\* g is inside a method of the breaker, between its Lock and its Unlock.
InCritical(g) == pc[g] \notin {"idle", "running"}

\* C22: the mutex is held exactly by the goroutine inside a method of the breaker,
\* never by a caller whose guarded operation runs; a goroutine inside a method can
\* always take its next step, whatever the number of guarded operations in flight;
\* when the mutex is free every admission check, report, state query and counts query
\* can start; and an admission check that found the breaker Closed can admit,
\* whatever the number of calls in flight.
GuardedOperationOutsideLock ==
  [](/\ \A g \in Goroutines : cb.mutex = g <=> InCritical(g)
     /\ \A c \in Callers :
          /\ pc[c] = "beforeRequest" => ENABLED BeforeRequestEval(c)
          /\ pc[c] = "beforeRequestEvaluated" => ENABLED BeforeRequestCheck(c)
          /\ pc[c] = "beforeRequestAdmitted" => ENABLED BeforeRequestReturn(c)
          /\ pc[c] = "afterRequest" => ENABLED AfterRequestEval(c)
          /\ pc[c] = "afterRequestEvaluated" => ENABLED AfterRequestCheck(c)
          /\ pc[c] = "afterRequestCurrent" => ENABLED AfterRequestReturn(c)
          /\ (Admitting(c) /\ lstate[c] = StateClosed) =>
               ENABLED (BeforeRequestCheck(c) /\ pc'[c] = "beforeRequestAdmitted")
     /\ pc[Observer] = "State" => ENABLED StateReturn
     /\ pc[Observer] = "Counts" => ENABLED CountsReturn
     /\ cb.mutex = NoOne =>
          /\ \A c \in Callers :
               /\ (pc[c] = "idle" /\ cb.counts.CurrRequests < MaxCurrRequests) =>
                    ENABLED BeforeRequestLock(c)
               /\ pc[c] = "running" => ENABLED AfterRequestLock(c)
          /\ ENABLED StateLock
          /\ ENABLED CountsLock)

\* Counts() has just returned while every caller is in its guarded operation, each
\* admitted in the current generation of a Closed breaker, after other calls have
\* been admitted and have reported.
AllInFlightWitness ==
  /\ ret.op = "Counts"
  /\ cb.state = StateClosed
  /\ \A c \in Callers : pc[c] = "running" /\ token[c] = cb.generation
  /\ ret.counts.CurrRequests > NumCallers
  /\ ret.counts.TotalSuccesses + ret.counts.TotalFailures =
       ret.counts.CurrRequests - NumCallers

(* ---- C26 ---- *)
\* C26: with callers that keep calling Do and guarded operations that keep ending, a
\* HalfOpen breaker eventually is no longer HalfOpen; it leaves HalfOpen only by the
\* last step of a probe's report, for Open when the report is a failure and for
\* Closed when it is the maxRequests-th success; and an observation of an Open
\* breaker at a time after its expiry makes it HalfOpen.
RecoveryProgress ==
  /\ (cb.state = StateHalfOpen) ~> (cb.state # StateHalfOpen)
  /\ [][/\ (cb.state = StateHalfOpen /\ cb'.state # StateHalfOpen) =>
             \E c \in Callers :
               /\ Applying(c) /\ Step(c)
               /\ token[c] = cb.generation
               /\ IF success[c]
                  THEN /\ cb'.state = StateClosed
                       /\ cb.counts.ConsecutiveSuccesses + 1 = cb.maxRequests
                  ELSE cb'.state = StateOpen
        /\ \A c \in Callers :
             (Observing(c) /\ Step(c) /\ cb.state = StateOpen /\ cb.expiry < clock) =>
               cb'.state = StateHalfOpen]_vars

\* The breaker has tripped, become HalfOpen, and has just been closed by the report
\* of the last of its probes, while a call admitted before is still running.
RecoveryWitness ==
  /\ ret.op = "afterRequest"
  /\ ret.err = "nil"
  /\ cb.state = StateClosed
  /\ cb.generation = 4
  /\ cb.counts = ZeroCounts
  /\ \E c \in Callers : pc[c] = "running" /\ token[c] < cb.generation

====
